---- MODULE Spec2Model ----
(***************************************************************************)
(* A model of homework.py: the poll / validate / extract / notify loop of  *)
(* main(), with the functions it calls translated as operators.            *)
(*                                                                         *)
(* Message texts are transliterated to ASCII; the variable parts of every  *)
(* text (status code, from_date, names, verdicts) are kept, so two texts   *)
(* are equal here exactly when the program's texts are equal.              *)
(***************************************************************************)
EXTENDS Integers, Sequences, FiniteSets, TLC

VARIABLES
    pc,           \* position of main(): "start", "polling", "sleeping", "fatal", "crashed"
    env,          \* the three module-level credentials, each "none", "empty" or "set"
    timestamp,    \* main's local `timestamp` (the poll cursor)
    now,          \* the wall clock read by time.time()
    sent_errors,  \* the module-level dict: error text -> time it was last recorded
    pending,      \* TRUE while an exception is propagating out of the except block
    fetches,      \* number of get_api_answer calls made so far
    sleeps,       \* number of time.sleep(RETRY_PERIOD) calls completed so far
    errSends,     \* history: every error notification handed to bot.send_message
    last          \* what the latest cycle did (observations of one loop iteration)

vars == <<pc, env, timestamp, now, sent_errors, pending, fetches, sleeps, errSends, last>>

----------------------------------------------------------------------------
(* Program constants *)

RETRY_PERIOD == 600
DUPLICATE_DELAY == 3600
HTTP_OK == 200

\* 'Работа проверена: ревьюеру всё понравилось. Ура!' etc., transliterated.
HOMEWORK_VERDICTS ==
    [approved  |-> "Rabota proverena: revyueru vsyo ponravilos. Ura!",
     reviewing |-> "Rabota vzyata na proverku revyuerom.",
     rejected  |-> "Rabota proverena: u revyuera est zamechaniya."]

\* The template filled with its two arguments in the other order.
StatusChangeMsgSwapped(name, verdict) ==
    "Izmenilsya status proverki raboty \"" \o verdict \o "\". " \o name

\* STATUS_CHANGE_MSG.format(name, verdict)
STATUS_CHANGE_MSG(name, verdict) ==
    "Izmenilsya status proverki raboty \"" \o name \o "\". " \o verdict

\* f'Сбой в работе программы: {error_message}'
FailureMsg(error_message) == "Sboi v rabote programmy: " \o error_message

----------------------------------------------------------------------------
(* Bounds of the model *)

MaxCycles == 2        \* loop iterations explored
StartTime == 1000     \* time.time() when main() starts
MaxDedupCycles == 3   \* loop iterations explored where only the dedup state is at stake

----------------------------------------------------------------------------
(* Values exchanged with the poll endpoint *)

\* One element of `homeworks`: a dict; `keys` are the keys it has.
Homework(keys, status, homework_name, lesson_name) ==
    [keys |-> keys, status |-> status,
     homework_name |-> homework_name, lesson_name |-> lesson_name]

\* The value under 'homeworks': a list of dicts, or something that is no list.
HwList(items) == [type |-> "list", items |-> items]
HwStr         == [type |-> "str",  items |-> <<>>]     \* a non-empty string
HwNull        == [type |-> "null", items |-> <<>>]     \* None / key absent

\* The decoded JSON body.  type "dict": `keys` are its keys; code is the text
\* of data['code'] ("200" stands for the integer 200); current_date is the
\* integer int() yields, and date_text is non-empty when int() cannot convert.
Dict(keys, code, error, homeworks, current_date, date_text) ==
    [type |-> "dict", keys |-> keys, code |-> code, error |-> error,
     homeworks |-> homeworks, current_date |-> current_date,
     date_text |-> date_text, len |-> Cardinality(keys)]
JsonList(n) ==
    [type |-> "list", keys |-> {}, code |-> "", error |-> "",
     homeworks |-> HwNull, current_date |-> 0, date_text |-> "", len |-> n]
JsonNull ==
    [type |-> "null", keys |-> {}, code |-> "", error |-> "",
     homeworks |-> HwNull, current_date |-> 0, date_text |-> "", len |-> 0]

\* What requests.get produced: net = "fail" when it raised a RequestException,
\* else a response with a status code and a body that is JSON (data) or not.
Response(net, status_code, is_json, data) ==
    [net |-> net, status_code |-> status_code, is_json |-> is_json, data |-> data]

----------------------------------------------------------------------------
(* Exceptions: a call returns a record whose exc is "" when it returned *)

NoExc == ""
UnboundLocal(name) ==
    "cannot access local variable '" \o name \o
    "' where it is not associated with a value"

Raise(exc, msg, logs) == [exc |-> exc, msg |-> msg, logs |-> logs]
Return(logs) == [exc |-> NoExc, msg |-> "", logs |-> logs]

----------------------------------------------------------------------------
(* get_api_answer(timestamp) *)

\* `'code' in data`, `'error' in data`: key membership for a dict; for a list
\* it is element membership, and the lists modelled here hold no such string.
HasKey(data, key) == data.type = "dict" /\ key \in data.keys

\* data.get("error", "Unknown error")
GetError(data) == IF HasKey(data, "error") THEN data.error ELSE "Unknown error"

\* The f-string of lines 108-112, with its variable parts.
HttpErrorMsg(status_code, from_date) ==
    "Oshibka zaprosa k API; HTTP Status Code: " \o ToString(status_code)
        \o "; Parametry: {'from_date': " \o ToString(from_date) \o "}"

\* The result of get_api_answer: an exception with its text, or the data; and
\* the number of error-severity log entries the call wrote.
GetApiAnswer(resp, from_date) ==
    IF resp.net = "fail"
    THEN \* the handler of line 114 reads the unassigned local `response`
         \* (line 117) before it logs: the call ends with UnboundLocalError
         Raise("UnboundLocalError", UnboundLocal("response"), 0)
    ELSE IF resp.status_code /= HTTP_OK
    THEN Raise("APIRequestError", HttpErrorMsg(resp.status_code, from_date), 1)
    ELSE IF ~resp.is_json
    THEN Raise("APIRequestError", "Oshibka dekodirovaniya JSON otveta: <html>", 1)
    ELSE IF resp.data.type = "null"
    THEN Raise("TypeError", "argument of type 'NoneType' is not iterable", 0)
    ELSE IF HasKey(resp.data, "code") /\ resp.data.code /= ToString(HTTP_OK)
    THEN Raise("APIRequestError",
               "API error: " \o GetError(resp.data) \o "kod: " \o resp.data.code, 0)
    ELSE IF HasKey(resp.data, "error")
    THEN Raise("APIRequestError", "API error: " \o resp.data.error, 0)
    ELSE Return(0)

----------------------------------------------------------------------------
(* check_response(response) *)

\* Python truth value of the decoded body: None, {} and [] are false.
Truthy(data) == data.type /= "null" /\ data.len > 0

\* check_response without its last test (lines 154-161).
CheckResponseNoListTest(response) ==
    IF ~Truthy(response)
    THEN Raise("APIResponseError", "Otvet API pust ili  None.", 0)
    ELSE IF response.type /= "dict"
    THEN Raise("TypeError", "Otvet API ne yavlyaetsya slovarem. <class '"
                            \o response.type \o "'>", 0)
    ELSE IF "homeworks" \notin response.keys
    THEN Raise("APIResponseError", "Otvet API ne soderzhit klyuch \"homeworks\".", 0)
    ELSE Return(0)

\* check_response without its test for the 'homeworks' key (lines 152-153).
CheckResponseNoKeyTest(response) ==
    IF ~Truthy(response)
    THEN Raise("APIResponseError", "Otvet API pust ili  None.", 0)
    ELSE IF response.type /= "dict"
    THEN Raise("TypeError", "Otvet API ne yavlyaetsya slovarem. <class '"
                            \o response.type \o "'>", 0)
    ELSE IF "homeworks" \in response.keys /\ response.homeworks.type /= "list"
    THEN Raise("TypeError", "Otvet API po klyuchu \"homeworks\" ne yavlyaetsya spiskom. <class '"
                            \o response.homeworks.type \o "'>", 0)
    ELSE Return(0)

\* check_response refusing an empty list too (`not response['homeworks']`).
CheckResponseEmptyListRefused(response) ==
    IF ~Truthy(response)
    THEN Raise("APIResponseError", "Otvet API pust ili  None.", 0)
    ELSE IF response.type /= "dict"
    THEN Raise("TypeError", "Otvet API ne yavlyaetsya slovarem. <class '"
                            \o response.type \o "'>", 0)
    ELSE IF "homeworks" \notin response.keys
    THEN Raise("APIResponseError", "Otvet API ne soderzhit klyuch \"homeworks\".", 0)
    ELSE IF response.homeworks.type /= "list" \/ Len(response.homeworks.items) = 0
    THEN Raise("TypeError", "Otvet API po klyuchu \"homeworks\" ne yavlyaetsya spiskom. <class '"
                            \o response.homeworks.type \o "'>", 0)
    ELSE Return(0)

CheckResponse(response) ==
    IF ~Truthy(response)
    THEN Raise("APIResponseError", "Otvet API pust ili  None.", 0)
    ELSE IF response.type /= "dict"
    THEN Raise("TypeError", "Otvet API ne yavlyaetsya slovarem. <class '"
                            \o response.type \o "'>", 0)
    ELSE IF "homeworks" \notin response.keys
    THEN Raise("APIResponseError", "Otvet API ne soderzhit klyuch \"homeworks\".", 0)
    ELSE IF response.homeworks.type /= "list"
    THEN Raise("TypeError", "Otvet API po klyuchu \"homeworks\" ne yavlyaetsya spiskom. <class '"
                            \o response.homeworks.type \o "'>", 0)
    ELSE Return(0)

----------------------------------------------------------------------------
(* parse_status(homework) *)

ParseStatus(homework) ==
    IF "status" \notin homework.keys
    THEN Raise("HomeworkStatusError", "Klyuch \"status\" otsutstvuet v dannykh homework.", 0)
    ELSE IF homework.status \notin DOMAIN HOMEWORK_VERDICTS
    THEN \* str() of a KeyError is the repr of its argument
         Raise("KeyError", "'Unknown or missing status: " \o homework.status \o "'", 0)
    ELSE IF "homework_name" \notin homework.keys
    THEN \* line 177 reads `name`, which line 176 did not assign
         Raise("UnboundLocalError", UnboundLocal("name"), 0)
    ELSE [exc |-> NoExc, logs |-> 0,
          msg |-> STATUS_CHANGE_MSG(homework.homework_name,
                                    HOMEWORK_VERDICTS[homework.status])]

----------------------------------------------------------------------------
(* send_message(bot, message) *)

\* What bot.send_message can do: deliver, raise apihelper.ApiException (the
\* Bot API refused), or raise an exception of another class (the connection
\* to Telegram failed: a requests exception, not an ApiException).
DeliveryOutcomes == {"Ack", "ApiException", "ConnectionError"}

\* Only ApiException is caught (and logged at error severity).
SendMessage(message, outcome) ==
    [exc       |-> IF outcome = "ConnectionError" THEN "ConnectionError" ELSE NoExc,
     msg       |-> IF outcome = "ConnectionError" THEN "Telegram is unreachable" ELSE "",
     logs      |-> IF outcome = "ApiException" THEN 1 ELSE 0,
     delivered |-> outcome = "Ack"]

----------------------------------------------------------------------------
(* check_tokens() *)

TokenNames == {"PRACTICUM_TOKEN", "TELEGRAM_TOKEN", "TELEGRAM_CHAT_ID"}

\* missing = [key for key, value in tokens.items() if value is None]
Missing(e) == {k \in TokenNames : e[k] = "none"}

\* TRUE when check_tokens returns, FALSE when it raises TokenError
CheckTokens(e) == Missing(e) = {}

----------------------------------------------------------------------------
(* main(): one iteration of `while True` *)

\* The cursor set to the server's time itself, without the + 1.
AdvanceCursorNoIncrement(ts, response) ==
    IF "current_date" \in response.keys THEN response.current_date ELSE ts

\* lines 200-201: `if 'current_date' in response: timestamp = int(...) + 1`
AdvanceCursor(ts, response) ==
    IF "current_date" \in response.keys THEN response.current_date + 1 ELSE ts

\* `if homeworks:` and `homeworks[0]`.  A non-empty string is true and its
\* first element is a one-character string, which has no 'status' in it.
HwTruthy(homeworks) ==
    \/ homeworks.type = "list" /\ Len(homeworks.items) > 0
    \/ homeworks.type = "str"
Newest(homeworks) ==      \* the last record instead of the first
    IF homeworks.type = "list" THEN homeworks.items[Len(homeworks.items)]
    ELSE Homework({}, "", "", "")
First(homeworks) ==
    IF homeworks.type = "list" THEN homeworks.items[1] ELSE Homework({}, "", "", "")

\* What one pass through the try block did.
Obs(exc, by, msg, ts, checked, parsed, text, sent, delivered, logs) ==
    [exc |-> exc, raisedBy |-> by, msg |-> msg, timestamp |-> ts,
     checked |-> checked, parsed |-> parsed, status_text |-> text,
     status_sent |-> sent, status_delivered |-> delivered, logs |-> logs]

\* lines 198-208, with `outcome` what bot.send_message does if it is called.
TryBlock(resp, ts, outcome) ==
    LET a == GetApiAnswer(resp, ts) IN
    IF a.exc /= NoExc
    THEN Obs(a.exc, "get_api_answer", a.msg, ts, FALSE, FALSE, "", FALSE, FALSE, a.logs)
    ELSE
    LET response == resp.data
        c == CheckResponse(response) IN
    IF c.exc /= NoExc
    THEN Obs(c.exc, "check_response", c.msg, ts, TRUE, FALSE, "", FALSE, FALSE, c.logs)
    ELSE IF "current_date" \in response.keys /\ response.date_text /= ""
    THEN Obs("ValueError", "main",
             "invalid literal for int() with base 10: '" \o response.date_text \o "'",
             ts, TRUE, FALSE, "", FALSE, FALSE, 0)
    ELSE
    LET ts1 == AdvanceCursor(ts, response)
        homeworks == response.homeworks IN
    IF ~HwTruthy(homeworks)
    THEN Obs(NoExc, "", "", ts1, TRUE, FALSE, "", FALSE, FALSE, 0)
    ELSE
    LET p == ParseStatus(First(homeworks)) IN
    IF p.exc /= NoExc
    THEN Obs(p.exc, "parse_status", p.msg, ts1, TRUE, TRUE, "", FALSE, FALSE, p.logs)
    ELSE
    LET s == SendMessage(p.msg, outcome) IN
    Obs(s.exc, IF s.exc /= NoExc THEN "send_message" ELSE "", s.msg, ts1,
        TRUE, TRUE, p.msg, TRUE, s.delivered, s.logs)

\* The gate with the window's end let through (>= for >).
ShouldNotifyAtWindowEnd(error_message, t, sent) ==
    \/ error_message \notin DOMAIN sent
    \/ t - sent[error_message] >= DUPLICATE_DELAY

\* line 212: the dedup gate
ShouldNotify(error_message, t, sent) ==
    \/ error_message \notin DOMAIN sent
    \/ t - sent[error_message] > DUPLICATE_DELAY

\* Only the latest error kept (one last-error slot instead of a dict).
RecordOnlyLatest(error_message, t, sent) == (error_message :> t)

\* line 213: sent_errors[error_message] = time.time()
RecordError(error_message, t, sent) == (error_message :> t) @@ sent

\* The error recorded only once its notification went through.
ExceptBlockRecordIfDelivered(error_message, t, sent, outcome) ==
    IF ShouldNotify(error_message, t, sent)
    THEN LET s == SendMessage(FailureMsg(error_message), outcome) IN
         [sent_errors |-> IF s.delivered THEN RecordError(error_message, t, sent) ELSE sent,
          error_sent |-> TRUE,
          error_delivered |-> s.delivered, logs |-> s.logs, escaped |-> s.exc /= NoExc]
    ELSE [sent_errors |-> sent, error_sent |-> FALSE,
          error_delivered |-> FALSE, logs |-> 0, escaped |-> FALSE]

\* lines 210-215, with `outcome` what bot.send_message does if it is called.
\* escaped: an exception left the except block.
ExceptBlock(error_message, t, sent, outcome) ==
    IF ShouldNotify(error_message, t, sent)
    THEN LET s == SendMessage(FailureMsg(error_message), outcome) IN
         [sent_errors |-> RecordError(error_message, t, sent), error_sent |-> TRUE,
          error_delivered |-> s.delivered, logs |-> s.logs, escaped |-> s.exc /= NoExc]
    ELSE [sent_errors |-> sent, error_sent |-> FALSE,
          error_delivered |-> FALSE, logs |-> 0, escaped |-> FALSE]

\* The sleep placed after the try statement instead of in its finally clause:
\* an exception leaving the except block skips it.
SleepUnlessEscaping(escaping) == IF escaping THEN "crashed" ELSE "sleeping"

\* lines 217-218: where control goes after try/except: the finally clause
\* runs time.sleep whether or not an exception is propagating.
Finally(escaping) == "sleeping"

\* after the finally clause: the loop goes on, or the exception leaves main
AfterFinally(escaping) == IF escaping THEN "crashed" ELSE "polling"

----------------------------------------------------------------------------
(* Inputs *)

Environments ==
    { [PRACTICUM_TOKEN |-> "set",   TELEGRAM_TOKEN |-> "set",  TELEGRAM_CHAT_ID |-> "set"],
      [PRACTICUM_TOKEN |-> "none",  TELEGRAM_TOKEN |-> "set",  TELEGRAM_CHAT_ID |-> "set"],
      [PRACTICUM_TOKEN |-> "set",   TELEGRAM_TOKEN |-> "none", TELEGRAM_CHAT_ID |-> "set"],
      [PRACTICUM_TOKEN |-> "set",   TELEGRAM_TOKEN |-> "set",  TELEGRAM_CHAT_ID |-> "none"],
      [PRACTICUM_TOKEN |-> "empty", TELEGRAM_TOKEN |-> "set",  TELEGRAM_CHAT_ID |-> "set"] }

\* The records served as elements of `homeworks` (name "X", lesson "L"):
\* every status with homework_name; and, for one known and one unknown status,
\* every other combination of the name keys; records without a status; and a
\* record with another name.
Rec(keys, status) ==
    Homework(keys, IF "status" \in keys THEN status ELSE "",
             IF "homework_name" \in keys THEN "X" ELSE "",
             IF "lesson_name" \in keys THEN "L" ELSE "")
Statuses == DOMAIN HOMEWORK_VERDICTS \cup {"unknown"}
NameKeys == {"homework_name", "lesson_name"}
Records ==
    { Rec({"status", "homework_name"}, st) : st \in Statuses }
        \cup { Rec({"status"} \cup k, st) : k \in SUBSET NameKeys, st \in {"approved", "unknown"} }
        \cup { Rec(k, "") : k \in {{}, {"homework_name"}} }
        \cup { Homework({"status", "homework_name"}, "rejected", "Y", "") }

\* The lists served under 'homeworks': empty, one record, or a record followed
\* by an older one.
HomeworkLists ==
    {<<>>} \cup { <<r>> : r \in Records }
           \cup { <<Rec({"status", "homework_name"}, "approved"), Rec({}, "")>>,
                  <<Rec({"status", "homework_name"}, "unknown"),
                    Rec({"status", "homework_name"}, "approved")>> }

\* current_date: lower than the start time, or higher.
Dates == {100, 2000}

\* Bodies with 'homeworks': every list without current_date; the empty list,
\* a good record and a record without a name also with each current_date.
DatedLists ==
    {<<>>, <<Rec({"status", "homework_name"}, "approved")>>,
     <<Rec({"status", "lesson_name"}, "approved")>>}
Bodies ==
    { JsonNull, JsonList(0), JsonList(1),
      Dict({}, "", "", HwNull, 0, ""),
      Dict({"code"}, "not_authenticated", "", HwNull, 0, ""),
      Dict({"error"}, "", "denied", HwNull, 0, ""),
      Dict({"code", "homeworks"}, ToString(HTTP_OK), "", HwList(<<>>), 0, ""),
      Dict({"current_date"}, "", "", HwNull, 100, ""),
      Dict({"homeworks"}, "", "", HwStr, 0, ""),
      Dict({"homeworks", "current_date"}, "", "", HwList(<<>>), 0, "soon") }
        \cup { Dict({"homeworks"}, "", "", HwList(l), 0, "") : l \in HomeworkLists }
        \cup { Dict({"homeworks", "current_date"}, "", "", HwList(l), d, "") :
                 l \in DatedLists, d \in Dates }

TransportFailure == Response("fail", 0, FALSE, JsonNull)
ServerError      == Response("ok", 500, FALSE, JsonNull)
Responses ==
    { TransportFailure, ServerError, Response("ok", HTTP_OK, FALSE, JsonNull) }
        \cup { Response("ok", HTTP_OK, TRUE, b) : b \in Bodies }

\* One requests.get call: what it produced and how long it took.  The call has
\* no timeout, so a failing call may take long: the two slow durations put the
\* cycle after it exactly on, and just past, the end of a dedup window.
SlowFetch == DUPLICATE_DELAY - RETRY_PERIOD
Requests ==
    { [resp |-> r, took |-> 0] : r \in Responses }
        \cup { [resp |-> r, took |-> d] :
                 r \in {TransportFailure, ServerError}, d \in {SlowFetch, SlowFetch + 1} }

----------------------------------------------------------------------------
(* The state machine *)

NoCycle ==
    [from_date |-> 0, resp |-> Response("fail", 0, FALSE, JsonNull),
     exc |-> NoExc, raisedBy |-> "", error_message |-> "",
     timestamp |-> 0, checked |-> FALSE, parsed |-> FALSE, status_text |-> "",
     status_sent |-> FALSE, status_delivered |-> FALSE,
     error_sent |-> FALSE, error_delivered |-> FALSE, logs |-> 0]

Init ==
    /\ pc = "start"
    /\ env \in Environments
    /\ timestamp = 0
    /\ now = StartTime
    /\ sent_errors = [m \in {} |-> 0]
    /\ pending = FALSE
    /\ fetches = 0
    /\ sleeps = 0
    /\ errSends = <<>>
    /\ last = NoCycle

\* lines 192-194: check_tokens(), TeleBot(...), timestamp = int(time.time())
Start ==
    /\ pc = "start"
    /\ IF CheckTokens(env)
       THEN pc' = "polling" /\ timestamp' = now
       ELSE pc' = "fatal" /\ timestamp' = timestamp
    /\ UNCHANGED <<env, now, sent_errors, pending, fetches, sleeps, errSends, last>>

\* The recorded errors forgotten by a cycle that raised nothing.
HandleClearingOnSuccess(b, t, sent, outcome) ==
    IF b.exc /= NoExc
    THEN ExceptBlock(b.msg, t, sent, outcome)
    ELSE [sent_errors |-> [m \in {} |-> 0], error_sent |-> FALSE,
          error_delivered |-> FALSE, logs |-> 0, escaped |-> FALSE]

\* The except clause applied to what the try block did (a no-op if it
\* raised nothing).
Handle(b, t, sent, outcome) ==
    IF b.exc /= NoExc
    THEN ExceptBlock(b.msg, t, sent, outcome)
    ELSE [sent_errors |-> sent, error_sent |-> FALSE,
          error_delivered |-> FALSE, logs |-> 0, escaped |-> FALSE]

\* The outcomes of bot.send_message to choose from: all of them where the call
\* is made, one (unused) where it is not.
OutcomesIf(called) == IF called THEN DeliveryOutcomes ELSE {"Ack"}

\* lines 197-215: the try block and, if it raised, the except block, served
\* one of `requests`, in a run of at most `max` iterations
Cycle(requests, max) ==
    /\ pc = "polling"
    /\ fetches < max
    /\ \E q \in requests :
       \E o1 \in OutcomesIf(TryBlock(q.resp, timestamp, "Ack").status_sent) :
       \E b \in {TryBlock(q.resp, timestamp, o1)} :
       \E o2 \in OutcomesIf(b.exc /= NoExc
                            /\ ShouldNotify(b.msg, now + q.took, sent_errors)) :
       \E h \in {Handle(b, now + q.took, sent_errors, o2)} :
            /\ now' = now + q.took
            /\ timestamp' = b.timestamp
            /\ sent_errors' = h.sent_errors
            /\ pending' = h.escaped
            /\ errSends' = IF h.error_sent
                           THEN Append(errSends, [text |-> b.msg, time |-> now + q.took,
                                                  delivered |-> h.error_delivered])
                           ELSE errSends
            /\ last' = [from_date |-> timestamp, resp |-> q.resp,
                        exc |-> b.exc, raisedBy |-> b.raisedBy, error_message |-> b.msg,
                        timestamp |-> b.timestamp, checked |-> b.checked,
                        parsed |-> b.parsed, status_text |-> b.status_text,
                        status_sent |-> b.status_sent,
                        status_delivered |-> b.status_delivered,
                        error_sent |-> h.error_sent,
                        error_delivered |-> h.error_delivered,
                        logs |-> b.logs + h.logs]
            /\ pc' = Finally(h.escaped)
    /\ fetches' = fetches + 1
    /\ UNCHANGED <<env, sleeps>>

PollCycle == Cycle(Requests, MaxCycles)

\* lines 217-218: time.sleep(RETRY_PERIOD), then the next iteration, or the
\* propagating exception leaves main
Sleep ==
    /\ pc = "sleeping"
    /\ now' = now + RETRY_PERIOD
    /\ sleeps' = sleeps + 1
    /\ pc' = AfterFinally(pending)
    /\ UNCHANGED <<env, timestamp, sent_errors, pending, fetches, errSends, last>>

Next == Start \/ PollCycle \/ Sleep

Spec == Init /\ [][Next]_vars

\* The same loop over longer runs, served only what the error-dedup state
\* depends on: a transport failure (fast, or slow enough to end on or past
\* the window), a server error, and a valid, dated body with nothing new.
EmptyAnswer ==
    Response("ok", HTTP_OK, TRUE,
             Dict({"homeworks", "current_date"}, "", "", HwList(<<>>), 100, ""))
DedupRequests ==
    { [resp |-> TransportFailure, took |-> d] : d \in {0, SlowFetch, SlowFetch + 1} }
        \cup { [resp |-> ServerError, took |-> 0], [resp |-> EmptyAnswer, took |-> 0] }

DedupCycle == Cycle(DedupRequests, MaxDedupCycles)

NextDedup == Start \/ DedupCycle \/ Sleep

SpecDedup == Init /\ [][NextDedup]_vars

----------------------------------------------------------------------------
(* Properties *)

Cycled == fetches >= 1

\* All three credentials were supplied and the loop has run a cycle.
Configured == \A k \in TokenNames : env[k] = "set"
Ran == Configured /\ Cycled
CycleStep == pc = "polling" /\ fetches' = fetches + 1

\* C1: the from_date sent in a cycle is never lower than the from_date sent in
\* the cycle before it, whatever the server answered in between.
C1_CursorNeverDecreases ==
    [][(Ran /\ CycleStep) => last'.from_date >= last.from_date]_vars

\* C2: once the loop is entered no failure leaves it: main never ends with an
\* exception.
C2_LoopNeverExits == Configured => pc /= "crashed"

\* The error notifications of text m handed to the notifier in the
\* DUPLICATE_DELAY seconds up to time t.
SendsInWindow(m, t) ==
    {i \in DOMAIN errSends : errSends[i].text = m /\ t - errSends[i].time <= DUPLICATE_DELAY}

\* C3: two error notifications with the same text are more than
\* DUPLICATE_DELAY apart; and at the end of a cycle that caught an error,
\* exactly one notification with that error's text lies in the window ending
\* now (so the second of two identical consecutive errors adds none).
C3_ErrorDedup ==
    /\ \A i, j \in DOMAIN errSends :
          (i < j /\ errSends[i].text = errSends[j].text)
              => errSends[j].time - errSends[i].time > DUPLICATE_DELAY
    /\ (pc = "sleeping" /\ last.exc /= NoExc)
          => Cardinality(SendsInWindow(last.error_message, now)) = 1

\* C3 witness: the second cycle caught the error the first one reported (and
\* delivered), inside the window, and sent nothing.
C3_Witness ==
    /\ pc = "sleeping" /\ fetches = 2
    /\ last.exc /= NoExc /\ ~last.error_sent
    /\ Len(errSends) = 1 /\ errSends[1].text = last.error_message
    /\ errSends[1].delivered /\ now - errSends[1].time <= DUPLICATE_DELAY

\* C4: a cycle in which parse_status failed, or in which the status
\* notification was not delivered, leaves the cursor as it was.
C4_CursorKeptWithoutDelivery ==
    (Ran /\ (last.raisedBy = "parse_status"
                 \/ (last.status_sent /\ ~last.status_delivered)))
        => last.timestamp = last.from_date

\* C5: every cycle is followed by exactly one sleep of RETRY_PERIOD before the
\* next fetch or the end of main: fetches and sleeps alternate.
C5_SleepEndsEveryCycle ==
    /\ [](/\ pc = "sleeping" => fetches = sleeps + 1
          /\ pc \in {"polling", "crashed"} => fetches = sleeps)
    /\ [][/\ fetches' /= fetches => (pc = "polling" /\ pc' = "sleeping" /\ sleeps' = sleeps)
          /\ pc = "sleeping" => (/\ pc' \in {"polling", "crashed"}
                                 /\ now' = now + RETRY_PERIOD
                                 /\ sleeps' = sleeps + 1 /\ fetches' = fetches)]_vars

\* C5 witness: two cycles, the second of which failed, each followed by its sleep.
C5_Witness == pc = "polling" /\ fetches = 2 /\ sleeps = 2 /\ last.exc /= NoExc

\* C6: every cycle that caught an exception wrote at least one log entry of
\* error severity.
C6_CaughtErrorsAreLogged == (Ran /\ last.exc /= NoExc) => last.logs >= 1

\* C7: with a credential absent or empty main stops before the loop: nothing
\* is fetched.
C7_EmptyCredentialIsFatal ==
    (\E k \in TokenNames : env[k] \in {"none", "empty"})
        => (pc \in {"start", "fatal"} /\ fetches = 0)

\* The record parse_status was given in the latest cycle.
LastRecord == First(last.resp.data.homeworks)

\* C8: a first record with a known status and at least one of the two name
\* fields yields a status notification; one with a known status and neither
\* name field fails with the missing-field error.
C8_EitherNameFieldAccepted ==
    (Ran /\ last.parsed /\ "status" \in LastRecord.keys
            /\ LastRecord.status \in DOMAIN HOMEWORK_VERDICTS)
        => IF LastRecord.keys \cap NameKeys /= {}
           THEN last.status_sent
           ELSE last.exc = "HomeworkStatusError"

\* The shapes check_response must refuse.
BadShape(data) ==
    \/ ~Truthy(data)
    \/ data.type /= "dict"
    \/ "homeworks" \notin data.keys
    \/ data.homeworks.type /= "list"

\* C9: a cycle whose body has a bad shape never reaches parse_status and sends
\* no status notification; and when get_api_answer returned that body,
\* check_response is what raised (APIResponseError or TypeError).
C9_BadShapeStopsAtValidator ==
    (Cycled /\ last.resp.net = "ok" /\ last.resp.status_code = HTTP_OK
            /\ last.resp.is_json /\ BadShape(last.resp.data))
        => /\ ~last.parsed /\ ~last.status_sent
           /\ last.checked => /\ last.raisedBy = "check_response"
                              /\ last.exc \in {"APIResponseError", "TypeError"}

\* C9 witness: get_api_answer returned a body whose 'homeworks' is no list.
C9_Witness ==
    /\ Cycled /\ last.checked
    /\ "homeworks" \in last.resp.data.keys /\ last.resp.data.homeworks.type = "str"
    /\ last.raisedBy = "check_response"

\* C10: when a cycle delivered a status notification and the next cycle is
\* served the same response, the next cycle delivers no second one.
C10_NoRepeatedStatusNotification ==
    [][(Ran /\ CycleStep /\ last.status_delivered /\ last'.resp = last.resp)
          => ~last'.status_delivered]_vars

\* C11: a first record whose status is no key of HOMEWORK_VERDICTS makes
\* parse_status fail with the unknown-status error whatever name fields it
\* has, no status notification is sent, and the failure is handled as a
\* recoverable error: main does not end.
C11_UnknownStatusIsRecoverable ==
    (Ran /\ last.parsed /\ "status" \in LastRecord.keys
         /\ LastRecord.status \notin DOMAIN HOMEWORK_VERDICTS)
        => /\ last.exc = "KeyError" /\ last.raisedBy = "parse_status"
           /\ ~last.status_sent
           /\ pc /= "crashed"

\* The latest response came with HTTP 200 and a JSON body.
LastDecoded ==
    Cycled /\ last.resp.net = "ok" /\ last.resp.status_code = HTTP_OK /\ last.resp.is_json

\* The body signals a rejection: an 'error' field, or a 'code' field (a string
\* in the endpoint's error bodies, so never the integer 200).
Rejection(data) ==
    \/ HasKey(data, "error")
    \/ HasKey(data, "code") /\ data.code /= ToString(HTTP_OK)

\* C12: an HTTP 200 body with an embedded code or error field is refused by
\* get_api_answer: check_response and parse_status are not invoked, no status
\* notification is sent, the cursor is unchanged, and the failure is handled
\* as a recoverable error: its text passes through the dedup gate and main
\* does not end.
C12_ApplicationFailureIsRecoverable ==
    (Configured /\ LastDecoded /\ Rejection(last.resp.data))
        => /\ last.exc = "APIRequestError" /\ last.raisedBy = "get_api_answer"
           /\ ~last.checked /\ ~last.parsed /\ ~last.status_sent
           /\ last.timestamp = last.from_date /\ timestamp = last.from_date
           /\ last.error_message \in DOMAIN sent_errors
           /\ pc /= "crashed"

\* The response is HTTP 200 with a JSON body that get_api_answer returns and
\* check_response accepts.
Valid(resp) ==
    /\ resp.net = "ok" /\ resp.status_code = HTTP_OK /\ resp.is_json
    /\ ~BadShape(resp.data) /\ ~Rejection(resp.data)

\* A valid body with an empty 'homeworks' list and no 'current_date'.
NothingNew(resp) ==
    /\ Valid(resp)
    /\ Len(resp.data.homeworks.items) = 0
    /\ "current_date" \notin resp.data.keys

\* C13: a cycle served a valid body with an empty list and no current_date
\* raises nothing, sends neither a status nor an error notification, and
\* leaves the cursor and the error-dedup state as they were.
C13_EmptyListChangesNothing ==
    [][(CycleStep /\ NothingNew(last'.resp))
          => /\ last'.exc = NoExc
             /\ ~last'.status_sent /\ ~last'.error_sent
             /\ last'.logs = 0
             /\ timestamp' = timestamp
             /\ sent_errors' = sent_errors /\ errSends' = errSends
             /\ ~pending']_vars

\* C13 witness: such a cycle, after a cycle that recorded an error.
C13_Witness ==
    /\ fetches = 2 /\ NothingNew(last.resp)
    /\ Len(errSends) = 1 /\ DOMAIN sent_errors /= {}

\* The text the claim gives for status s and name n, written out.
ExpectedMessage(s, n) ==
    "Izmenilsya status proverki raboty \"" \o n \o "\". " \o
        CASE s = "approved"  -> "Rabota proverena: revyueru vsyo ponravilos. Ura!"
          [] s = "reviewing" -> "Rabota vzyata na proverku revyuerom."
          [] s = "rejected"  -> "Rabota proverena: u revyuera est zamechaniya."

\* The valid response's list is non-empty and its current_date, if any, is a
\* number: main reaches parse_status with the first record.
Extractable(resp) ==
    /\ Valid(resp)
    /\ Len(resp.data.homeworks.items) > 0
    /\ ("current_date" \in resp.data.keys => resp.data.date_text = "")

\* C14: a first record with a status of the table and a homework_name yields
\* exactly the template text with that name and that status's verdict, and
\* this text is what is handed to bot.send_message.
C14_MessageText ==
    (Cycled /\ Extractable(last.resp)
            /\ {"status", "homework_name"} \subseteq LastRecord.keys
            /\ LastRecord.status \in {"approved", "reviewing", "rejected"})
        => /\ last.parsed /\ last.status_sent
           /\ last.status_text
                 = ExpectedMessage(LastRecord.status, LastRecord.homework_name)

\* C14 witness: the record "Y" / rejected was announced and delivered.
C14_Witness ==
    /\ Cycled /\ Extractable(last.resp)
    /\ LastRecord.status = "rejected" /\ LastRecord.homework_name = "Y"
    /\ last.status_delivered
    /\ last.status_text
          = "Izmenilsya status proverki raboty \"Y\". Rabota proverena: u revyuera est zamechaniya."

\* C15: a cycle in which get_api_answer fails (transport failure, non-200
\* status, undecodable body, rejection in the body) or check_response fails
\* leaves the cursor unchanged, and the cycle after it sends the same
\* from_date.
C15_FailedFetchKeepsCursor ==
    [][CycleStep =>
          /\ ~Valid(last'.resp)
                => /\ last'.raisedBy \in {"get_api_answer", "check_response"}
                   /\ timestamp' = timestamp
                   /\ last'.timestamp = last'.from_date
          /\ (Cycled /\ ~Valid(last.resp)) => last'.from_date = last.from_date]_vars

\* C15 witness: the first cycle moved the cursor to 101, the second failed in
\* check_response, and the cursor is still 101.
C15_Witness ==
    /\ fetches = 2 /\ ~Valid(last.resp) /\ last.raisedBy = "check_response"
    /\ last.from_date = 101 /\ timestamp = 101

\* The times at which an error notification of text m was handed to the
\* notifier, and the latest of them.
SendTimes(m) == {errSends[i].time : i \in {j \in DOMAIN errSends : errSends[j].text = m}}
LatestSend(m) == CHOOSE t \in SendTimes(m) : \A u \in SendTimes(m) : u <= t

\* C16: a cycle that catches an error with text m at time t attempts an error
\* notification exactly when m was never recorded before or was last recorded
\* strictly more than DUPLICATE_DELAY before t, the times being those of m
\* alone, whatever other errors came in between; a cycle that catches nothing
\* attempts none.
C16_TimeWindowedGate ==
    [][CycleStep =>
          last'.error_sent
              = /\ last'.exc /= NoExc
                /\ \/ SendTimes(last'.error_message) = {}
                   \/ now' - LatestSend(last'.error_message) > DUPLICATE_DELAY]_vars

\* C16 witness: error A was notified, then another error B was notified, then
\* A came again inside its window and was not notified.
C16_Witness ==
    /\ fetches = 3 /\ last.exc /= NoExc /\ ~last.error_sent
    /\ Len(errSends) = 2
    /\ errSends[1].text = last.error_message
    /\ errSends[2].text /= last.error_message
    /\ now - errSends[1].time <= DUPLICATE_DELAY

\* A validated response whose current_date is a number.
Dated(resp) ==
    Valid(resp) /\ "current_date" \in resp.data.keys /\ resp.data.date_text = ""

\* C17: every request carries the cursor of that moment as from_date; the first
\* carries the startup time; the request after a validated response with
\* current_date = d carries d + 1; the request after a validated response
\* without current_date carries the same from_date as the one before.
C17_RequestCarriesCursor ==
    [][CycleStep =>
          /\ last'.from_date = timestamp
          /\ fetches = 0 => last'.from_date = StartTime
          /\ (Cycled /\ Dated(last.resp))
                => last'.from_date = last.resp.data.current_date + 1
          /\ (Cycled /\ Valid(last.resp) /\ "current_date" \notin last.resp.data.keys)
                => last'.from_date = last.from_date]_vars

\* C17 witness: the second request went out with from_date = 101 after a
\* response dated 100, and its own validated, undated response kept 101.
C17_Witness ==
    /\ fetches = 2 /\ last.from_date = 101
    /\ Valid(last.resp) /\ "current_date" \notin last.resp.data.keys
    /\ last.exc = NoExc /\ timestamp = 101

\* The response with every record after homeworks[0] dropped.
OnlyFirst(resp) ==
    [resp EXCEPT !.data.homeworks = HwList(<<resp.data.homeworks.items[1]>>)]
NonEmpty(resp) == Valid(resp) /\ Len(resp.data.homeworks.items) > 0

\* C18: for a validated payload with a non-empty list the try block does, under
\* every delivery outcome, exactly what it does for the payload holding only
\* homeworks[0]; what the cycle did is one of these; a status notification is
\* attempted only with the text built from homeworks[0]; and a first record
\* that parses means no error from parse_status, whatever follows it.
C18_OnlyFirstRecord ==
    (Cycled /\ NonEmpty(last.resp)) =>
        /\ \A o \in DeliveryOutcomes :
              TryBlock(last.resp, last.from_date, o)
                  = TryBlock(OnlyFirst(last.resp), last.from_date, o)
        /\ \E o \in DeliveryOutcomes :
              LET b == TryBlock(OnlyFirst(last.resp), last.from_date, o) IN
              /\ last.exc = b.exc /\ last.error_message = b.msg
              /\ last.status_sent = b.status_sent /\ last.status_text = b.status_text
              /\ last.status_delivered = b.status_delivered
        /\ last.status_sent
              => last.status_text = ParseStatus(last.resp.data.homeworks.items[1]).msg
        /\ ParseStatus(last.resp.data.homeworks.items[1]).exc = NoExc
              => last.raisedBy /= "parse_status"

\* C18 witness: a good record followed by a malformed one, and the status of
\* the good one was delivered without error.
C18_Witness ==
    /\ Cycled /\ NonEmpty(last.resp)
    /\ Len(last.resp.data.homeworks.items) = 2
    /\ ParseStatus(last.resp.data.homeworks.items[2]).exc /= NoExc
    /\ last.exc = NoExc /\ last.status_delivered

\* Notification attempts for text m that were not delivered and lie within
\* DUPLICATE_DELAY before time t.
FailedAttempts(m, t) ==
    {i \in DOMAIN errSends : /\ errSends[i].text = m /\ ~errSends[i].delivered
                             /\ t - errSends[i].time <= DUPLICATE_DELAY}

\* C19: a cycle that attempts an error notification has recorded the error at
\* that time whether or not the delivery went through, and a cycle that catches
\* an error whose notification failed inside the window attempts no delivery.
C19_RecordedBeforeDelivery ==
    [][CycleStep =>
          /\ last'.error_sent
                => /\ last'.error_message \in DOMAIN sent_errors'
                   /\ sent_errors'[last'.error_message] = now'
          /\ (last'.exc /= NoExc /\ FailedAttempts(last'.error_message, now') /= {})
                => /\ ~last'.error_sent
                   /\ errSends' = errSends]_vars

\* C19 witness: the same error was caught twice inside the window, the one
\* attempt to report it failed, and nothing was delivered.
C19_Witness ==
    /\ fetches = 2 /\ pc /= "crashed" /\ last.exc /= NoExc /\ ~last.error_sent
    /\ Len(errSends) = 1 /\ ~errSends[1].delivered
    /\ errSends[1].text = last.error_message
    /\ now - errSends[1].time <= DUPLICATE_DELAY

\* C20: sent_errors changes only in a cycle that caught an error and passed the
\* gate; a cycle that raised nothing leaves it as it was; no entry is ever
\* removed and no entry's time decreases; and an error already recorded inside
\* the window is not notified again after a cycle that raised nothing.
C20_DedupStateFrame ==
    [][/\ sent_errors' /= sent_errors
            => /\ CycleStep /\ last'.exc /= NoExc /\ last'.error_sent
               /\ ShouldNotify(last'.error_message, now', sent_errors)
       /\ (CycleStep /\ last'.exc = NoExc)
            => sent_errors' = sent_errors /\ errSends' = errSends
       /\ \A m \in DOMAIN sent_errors :
            m \in DOMAIN sent_errors' /\ sent_errors'[m] >= sent_errors[m]
       /\ (CycleStep /\ Cycled /\ last.exc = NoExc /\ last'.exc /= NoExc
                     /\ SendTimes(last'.error_message) /= {}
                     /\ now' - LatestSend(last'.error_message) <= DUPLICATE_DELAY)
            => ~last'.error_sent /\ errSends' = errSends]_vars

\* C20 witness: error A in the first cycle, notified; a second cycle that
\* validated a dated response (the cursor moved to 101, which no failed cycle
\* does); A again in the third, inside the window, not notified: one
\* notification in all.
C20_Witness ==
    /\ fetches = 3 /\ timestamp = 101
    /\ Len(errSends) = 1 /\ errSends[1].time = StartTime
    /\ DOMAIN sent_errors = {errSends[1].text}
    /\ last.exc /= NoExc /\ last.raisedBy = "get_api_answer"
    /\ last.error_message = errSends[1].text /\ ~last.error_sent
    /\ now - errSends[1].time <= DUPLICATE_DELAY

====
